---- MODULE Spec2Model ----
(***************************************************************************)
(* State-machine model of the portfolio page's client-side behaviour       *)
(* (src/src/App.tsx): the IntersectionObserver hooks (useInView,           *)
(* useActiveSection), the scroll listeners (Header, ScrollToTop), the      *)
(* Typewriter interval, the MatrixRain frame loop and the category filter. *)
(*                                                                         *)
(* Lengths are CSS pixels.  The browser is part of the model only as far   *)
(* as the code subscribes to it: the scroll offset and viewport size, the  *)
(* queue of IntersectionObserverEntry records of every observer, the       *)
(* pending scroll event, the table of active timers and the list of        *)
(* pending animation-frame callbacks.                                      *)
(***************************************************************************)
EXTENDS Integers, Sequences, FiniteSets, TLC

VARIABLES
    \* ---- browser window ----
    scrollY,            \* window.scrollY
    innerWidth,         \* window.innerWidth
    innerHeight,        \* window.innerHeight
    scrollEventPending, \* a scroll event is waiting to be dispatched
    scrollListeners,    \* components whose onScroll is registered on window
    resizeListeners,    \* components whose resize handler is registered
    ran,                \* the callbacks of the page that the last step invoked
    \* ---- Header / useActiveSection ----
    headerMounted,      \* Header's effects are set up and not cleaned up
    active,             \* useState('') of useActiveSection
    scrolled,           \* useState(false) of Header
    navObserving,       \* section id -> its observer still has its target
    navPrev,            \* section id -> previousIsIntersecting ("unset" first)
    navQueue,           \* section id -> queued entries (isIntersecting flags)
    \* ---- FadeInSection / useInView ----
    fadeMounted,        \* ids of the FadeInSection instances that are mounted
    inView,             \* id -> useState(false) of useInView
    fadeObserving,      \* id -> the observer still has the element
    fadePrev,           \* id -> <<previousThresholdIndex, previousIsIntersecting>>
    fadeQueue,          \* id -> queued entries (isIntersecting flags)
    \* ---- ScrollToTop ----
    sttMounted,         \* ScrollToTop's effect is set up and not cleaned up
    visible,            \* useState(false) of ScrollToTop
    \* ---- Typewriter ----
    twMounted,          \* Typewriter's effect is set up and not cleaned up
    text,               \* prop text, a sequence of characters
    speed,              \* prop speed, the interval in time units
    displayed,          \* useState('')
    done,               \* useState(false)
    timers,             \* the active intervals: [id, text, speed, i, due]
    interval,           \* id of the interval the last effect run created
    effectPending,      \* the props changed and the effect has not rerun yet
    elapsed,            \* time since the effect last ran
    oldText,            \* the text of the effect run before the last one
    restarted,          \* the effect ran again after a change of its props
    \* ---- MatrixRain ----
    rainMounted,        \* MatrixRain's effect is set up and not cleaned up
    ctxNull,            \* canvas.getContext('2d') returned null
    canvasW,            \* canvas.width
    canvasH,            \* canvas.height
    columns,            \* let columns
    drops,              \* let drops
    dropsBefore,        \* the value of drops when initDrops last ran on a resize
    lastTime,           \* let lastTime
    animationFrameId,   \* let animationFrameId
    rafPending,         \* handles of the frame callbacks that are requested
    now,                \* timestamp of the latest frame, in units of 1/120 s
    \* ---- App ----
    projects,           \* const projects (data/projects.json)
    activeCategory,     \* useState<Category>('All')
    filteredProjects    \* useMemo(..., [activeCategory])

windowVars == <<scrollY, innerWidth, innerHeight, scrollEventPending,
                scrollListeners, resizeListeners, ran>>
headerVars == <<headerMounted, active, scrolled, navObserving, navPrev, navQueue>>
fadeVars   == <<fadeMounted, inView, fadeObserving, fadePrev, fadeQueue>>
sttVars    == <<sttMounted, visible>>

twVars     == <<twMounted, text, speed, displayed, done, timers, interval,
                effectPending, elapsed, oldText, restarted>>
rainVars   == <<rainMounted, ctxNull, canvasW, canvasH, columns, drops,
                dropsBefore, lastTime, animationFrameId, rafPending, now>>
appVars    == <<projects, activeCategory, filteredProjects>>

vars == <<windowVars, headerVars, fadeVars, sttVars, twVars, rainVars, appVars>>

----------------------------------------------------------------------------
(* Bounds of the model *)

\* viewport height of the modelled window, in px
ViewportH == 40
\* viewport width of the modelled window, in px
ViewportW == 28
\* entries one observer can hold between two deliveries
MaxQueued == 2
\* distance between two scroll offsets the model visits, in px
ScrollStep == 4

----------------------------------------------------------------------------
(* Page layout: document coordinates of the elements the hooks observe.    *)
(* The four navigation sections are consecutive <section> elements with    *)
(* padding and no margin, so each one starts where the previous one ends;  *)
(* the hero fills the first screen; the footer follows a margin.           *)

sectionIds == <<"about", "experience", "education", "projects">>

SectionIdSet == {sectionIds[k] : k \in DOMAIN sectionIds}

Layout ==
    [hero       |-> [top |-> 0,  bottom |-> 40],
     about      |-> [top |-> 40, bottom |-> 48],
     experience |-> [top |-> 48, bottom |-> 56],
     education  |-> [top |-> 56, bottom |-> 64],
     projects   |-> [top |-> 64, bottom |-> 90],
     footer     |-> [top |-> 91, bottom |-> 92]]

DocHeight == Layout.footer.bottom

MaxScrollY == DocHeight - ViewportH

ScrollOffsets == {y \in 0..MaxScrollY : y % ScrollStep = 0}

----------------------------------------------------------------------------
(* IntersectionObserver geometry *)

\* useActiveSection: rootMargin '-40% 0px -55% 0px' shrinks the root to the
\* band between 40% and 45% of the viewport height; the default threshold 0
\* makes isIntersecting true when the section and the band overlap or touch.
BandTop(y) == y + (40 * ViewportH) \div 100

BandBottom(y) == y + ViewportH - (55 * ViewportH) \div 100

IsIntersectingBand(id, y) ==
    /\ Layout[id].top <= BandBottom(y)
    /\ Layout[id].bottom >= BandTop(y)

\* the tracked sections that intersect the central band at offset y
InBand(y) == {id \in SectionIdSet : IsIntersectingBand(id, y)}

\* useInView({ threshold: 0.1 }): the root is the whole viewport
FadeIds == {"hero", "about", "projects"}

Max2(a, b) == IF a >= b THEN a ELSE b

Min2(a, b) == IF a <= b THEN a ELSE b

VisibleHeight(id, y) ==
    Max2(0, Min2(Layout[id].bottom, y + ViewportH) - Max2(Layout[id].top, y))

IsIntersectingViewport(id, y) ==
    /\ Layout[id].top <= y + ViewportH
    /\ Layout[id].bottom >= y

\* index of the first threshold greater than the ratio, thresholds = [0.1]
ThresholdIndex(id, y) ==
    IF 10 * VisibleHeight(id, y) >= Layout[id].bottom - Layout[id].top
    THEN 1 ELSE 0

----------------------------------------------------------------------------
(* Names *)

Components == {"Header", "FadeInSection", "ScrollToTop", "Typewriter", "MatrixRain"}

CB(comp, id) == [comp |-> comp, id |-> id]

----------------------------------------------------------------------------
(* Browser steps *)

\* the user (or scrollTo, or an anchor link) moves the page to offset y; a
\* scroll event is due when some listener is registered for it
Scroll(y) ==
    /\ y # scrollY
    /\ scrollY' = y
    /\ scrollEventPending' = (scrollListeners # {})
    /\ ran' = {}
    /\ UNCHANGED <<twVars, rainVars, appVars>>
    /\ UNCHANGED <<innerWidth, innerHeight, scrollListeners, resizeListeners>>
    /\ UNCHANGED <<headerVars, fadeVars, sttVars>>

\* Header.onScroll and ScrollToTop.onScroll, for the registered listeners
DispatchScroll ==
    /\ scrollEventPending
    /\ scrollEventPending' = FALSE
    /\ scrolled' = IF "Header" \in scrollListeners /\ headerMounted
                   THEN scrollY > 50 ELSE scrolled
    /\ visible' = IF "ScrollToTop" \in scrollListeners /\ sttMounted
                  THEN scrollY > innerHeight ELSE visible
    /\ ran' = {CB(c, "onScroll") : c \in scrollListeners}
    /\ UNCHANGED <<twVars, rainVars, appVars>>
    /\ UNCHANGED <<scrollY, innerWidth, innerHeight, scrollListeners, resizeListeners>>
    /\ UNCHANGED <<headerMounted, active, navObserving, navPrev, navQueue>>
    /\ UNCHANGED <<fadeVars, sttMounted>>

NavEntryDue(id) ==
    /\ navObserving[id]
    /\ \/ navPrev[id] = "unset"
       \/ (navPrev[id] = "in") # IsIntersectingBand(id, scrollY)

FadeEntryDue(id) ==
    /\ fadeObserving[id]
    /\ fadePrev[id] # <<ThresholdIndex(id, scrollY), IsIntersectingViewport(id, scrollY)>>

\* "update intersection observations" of a rendering step: every observer
\* whose target changed its intersection state gets one more queued entry
UpdateIntersectionObservations ==
    /\ \/ \E id \in SectionIdSet : NavEntryDue(id)
       \/ \E id \in FadeIds : FadeEntryDue(id)
    /\ \A id \in SectionIdSet : NavEntryDue(id) => Len(navQueue[id]) < MaxQueued
    /\ \A id \in FadeIds : FadeEntryDue(id) => Len(fadeQueue[id]) < MaxQueued
    /\ navQueue' = [id \in SectionIdSet |->
                      IF NavEntryDue(id)
                      THEN Append(navQueue[id], IsIntersectingBand(id, scrollY))
                      ELSE navQueue[id]]
    /\ navPrev' = [id \in SectionIdSet |->
                      IF ~navObserving[id] THEN navPrev[id]
                      ELSE IF IsIntersectingBand(id, scrollY) THEN "in" ELSE "out"]
    /\ fadeQueue' = [id \in FadeIds |->
                      IF FadeEntryDue(id)
                      THEN Append(fadeQueue[id], IsIntersectingViewport(id, scrollY))
                      ELSE fadeQueue[id]]
    /\ fadePrev' = [id \in FadeIds |->
                      IF ~fadeObserving[id] THEN fadePrev[id]
                      ELSE <<ThresholdIndex(id, scrollY),
                             IsIntersectingViewport(id, scrollY)>>]
    /\ ran' = {}
    /\ UNCHANGED <<twVars, rainVars, appVars>>
    /\ UNCHANGED <<scrollY, innerWidth, innerHeight, scrollEventPending,
                   scrollListeners, resizeListeners>>
    /\ UNCHANGED <<headerMounted, active, scrolled, navObserving>>
    /\ UNCHANGED <<fadeMounted, inView, fadeObserving, sttVars>>

----------------------------------------------------------------------------
(* Observer callbacks *)

\* useActiveSection's callback of section id, handed the entries `entries`:
\* ([entry]) => { if (entry.isIntersecting) setActive(id); }
ActiveCallback(id, entries, cur) ==
    IF Head(entries) THEN id ELSE cur

\* the callbacks of the observers with queued entries run in the order the
\* observers were created (the order of sectionIds), each on its own queue
RECURSIVE ActiveAfter(_, _)
ActiveAfter(k, cur) ==
    IF k > Len(sectionIds) THEN cur
    ELSE ActiveAfter(k + 1,
            IF navQueue[sectionIds[k]] = <<>> THEN cur
            ELSE ActiveCallback(sectionIds[k], navQueue[sectionIds[k]], cur))

\* useInView's callback of the section id, handed the entries `entries`:
\* ([entry]) => { if (entry.isIntersecting) {
\*   setInView(true); observer.unobserve(entry.target); } }
\* InViewAfter is the state it sets, ObservingAfter whether the observer
\* still has the element afterwards.
InViewAfter(id, entries) ==
    IF Head(entries) THEN TRUE ELSE inView[id]

\* the callback without its call of unobserve
ObservingNever(id, entries) == fadeObserving[id]

ObservingAfter(id, entries) ==
    IF Head(entries) THEN FALSE ELSE fadeObserving[id]

\* the task that notifies the observers: every observer with queued entries
\* has its queue emptied and its callback invoked with the entries.  A state
\* update of a component that is no longer mounted is dropped by React.
NotifyIntersectionObservers ==
    /\ \/ \E id \in SectionIdSet : navQueue[id] # <<>>
       \/ \E id \in FadeIds : fadeQueue[id] # <<>>
    /\ active' = IF headerMounted THEN ActiveAfter(1, active) ELSE active
    /\ navQueue' = [id \in SectionIdSet |-> <<>>]
    /\ inView' = [id \in FadeIds |->
                    IF fadeQueue[id] # <<>> /\ id \in fadeMounted
                    THEN InViewAfter(id, fadeQueue[id]) ELSE inView[id]]
    /\ fadeObserving' = [id \in FadeIds |->
                    IF fadeQueue[id] # <<>>
                    THEN ObservingAfter(id, fadeQueue[id]) ELSE fadeObserving[id]]
    /\ fadeQueue' = [id \in FadeIds |-> <<>>]
    /\ ran' = {CB("useActiveSection", id) : id \in {s \in SectionIdSet : navQueue[s] # <<>>}}
              \cup {CB("useInView", id) : id \in {s \in FadeIds : fadeQueue[s] # <<>>}}
    /\ UNCHANGED <<twVars, rainVars, appVars>>
    /\ UNCHANGED <<scrollY, innerWidth, innerHeight, scrollEventPending,
                   scrollListeners, resizeListeners>>
    /\ UNCHANGED <<headerMounted, scrolled, navObserving, navPrev>>
    /\ UNCHANGED <<fadeMounted, fadePrev, sttVars>>

----------------------------------------------------------------------------
(* Effect cleanups.  unobserve() and disconnect() stop further             *)
(* observations; whether entries already queued are still delivered        *)
(* differs between browsers, so both outcomes are possible here.           *)

\* Header: observers.forEach((o) => o.disconnect()) and
\* window.removeEventListener('scroll', onScroll)
HeaderUnmount ==
    /\ headerMounted
    /\ headerMounted' = FALSE
    /\ navObserving' = [id \in SectionIdSet |-> FALSE]
    /\ \E keep \in BOOLEAN :
          navQueue' = IF keep THEN navQueue ELSE [id \in SectionIdSet |-> <<>>]
    /\ scrollListeners' = scrollListeners \ {"Header"}
    /\ ran' = {}
    /\ UNCHANGED <<twVars, rainVars, appVars>>
    /\ UNCHANGED <<scrollY, innerWidth, innerHeight, scrollEventPending, resizeListeners>>
    /\ UNCHANGED <<active, scrolled, navPrev>>
    /\ UNCHANGED <<fadeVars, sttVars>>

\* useInView: if (el) observer.unobserve(el)
FadeUnmount(id) ==
    /\ id \in fadeMounted
    /\ fadeMounted' = fadeMounted \ {id}
    /\ fadeObserving' = [fadeObserving EXCEPT ![id] = FALSE]
    /\ \E keep \in BOOLEAN :
          fadeQueue' = IF keep THEN fadeQueue ELSE [fadeQueue EXCEPT ![id] = <<>>]
    /\ ran' = {}
    /\ UNCHANGED <<twVars, rainVars, appVars>>
    /\ UNCHANGED <<scrollY, innerWidth, innerHeight, scrollEventPending,
                   scrollListeners, resizeListeners>>
    /\ UNCHANGED <<inView, fadePrev>>
    /\ UNCHANGED <<headerVars, sttVars>>

\* ScrollToTop: window.removeEventListener('scroll', onScroll)
ScrollToTopUnmount ==
    /\ sttMounted
    /\ sttMounted' = FALSE
    /\ scrollListeners' = scrollListeners \ {"ScrollToTop"}
    /\ ran' = {}
    /\ UNCHANGED <<twVars, rainVars, appVars>>
    /\ UNCHANGED <<scrollY, innerWidth, innerHeight, scrollEventPending, resizeListeners>>
    /\ UNCHANGED <<visible, headerVars, fadeVars>>

\* the button of ScrollToTop, rendered only while visible:
\* onClick={() => window.scrollTo({ top: 0, behavior: 'smooth' })}
ScrollToTopClick ==
    /\ sttMounted
    /\ visible
    /\ scrollY > 0
    /\ scrollY' = 0
    /\ scrollEventPending' = TRUE
    /\ ran' = {CB("ScrollToTop", "onClick")}
    /\ UNCHANGED <<twVars, rainVars, appVars>>
    /\ UNCHANGED <<innerWidth, innerHeight, scrollListeners, resizeListeners>>
    /\ UNCHANGED <<headerVars, fadeVars, sttVars>>

----------------------------------------------------------------------------
(* Typewriter *)

\* longest target string
MaxLen == 2
\* longest interval, in time units
MaxSpeed == 2
\* time the model lets pass after a (re)start
MaxElapsed == MaxLen * MaxSpeed + 1

Alphabet == {"a", "b"}

RECURSIVE StringsOfLen(_)
StringsOfLen(n) ==
    IF n = 0 THEN {<<>>}
    ELSE {Append(t, c) : t \in StringsOfLen(n - 1), c \in Alphabet}

Texts == UNION {StringsOfLen(n) : n \in 0..MaxLen}

Speeds == 1..MaxSpeed

\* text.slice(0, i)
Slice(t, i) == SubSeq(t, 1, Min2(i, Len(t)))

\* s is t.slice(0, k) for some k
IsPrefix(s, t) == Len(s) <= Len(t) /\ s = SubSeq(t, 1, Len(s))

\* setInterval returns an id that no active timer has
FreshTimerId(ts) == CHOOSE n \in 1..(Cardinality(ts) + 1) : \A t \in ts : t.id # n

\* clearInterval(id)
ClearInterval(ts, id) == {t \in ts : t.id # id}

\* an interval is due: its callback runs before more time passes
TimerDue == \E t \in timers : t.due = 0

\* time passes by one unit
Tick ==
    /\ ~TimerDue
    /\ ~effectPending
    /\ twMounted \/ timers # {}
    /\ elapsed < MaxElapsed
    /\ elapsed' = elapsed + 1
    /\ timers' = {[t EXCEPT !.due = t.due - 1] : t \in timers}
    /\ ran' = {}
    /\ UNCHANGED <<twMounted, text, speed, displayed, done, interval,
                   effectPending, oldText, restarted>>
    /\ UNCHANGED <<scrollY, innerWidth, innerHeight, scrollEventPending,
                   scrollListeners, resizeListeners>>
    /\ UNCHANGED <<headerVars, fadeVars, sttVars, rainVars, appVars>>

\* the displayed text after the callback of timer t:
\* i++; setDisplayed(text.slice(0, i))
TickDisplayed(t) == Slice(t.text, t.i + 1)

\* if (i >= text.length) { setDone(true); clearInterval(interval); }
TickFinishes(t) == t.i + 1 >= Len(t.text)

\* the callback of the interval t
TimerFire(t) ==
    /\ t \in timers
    /\ t.due = 0
    /\ displayed' = IF twMounted THEN TickDisplayed(t) ELSE displayed
    /\ done' = IF twMounted /\ TickFinishes(t) THEN TRUE ELSE done
    /\ timers' = IF TickFinishes(t)
                 THEN ClearInterval(timers, t.id)
                 ELSE (timers \ {t}) \cup {[t EXCEPT !.i = t.i + 1, !.due = t.speed]}
    /\ ran' = {CB("Typewriter", "interval")}
    /\ UNCHANGED <<twMounted, text, speed, interval, effectPending, elapsed,
                   oldText, restarted>>
    /\ UNCHANGED <<scrollY, innerWidth, innerHeight, scrollEventPending,
                   scrollListeners, resizeListeners>>
    /\ UNCHANGED <<headerVars, fadeVars, sttVars, rainVars, appVars>>

\* the parent renders Typewriter with other props: [text, speed] changed,
\* so the effect is scheduled to run again
SetProps(t, s) ==
    /\ twMounted
    /\ ~effectPending
    /\ <<t, s>> # <<text, speed>>
    /\ text' = t
    /\ speed' = s
    /\ effectPending' = TRUE
    /\ oldText' = text
    /\ ran' = {}
    /\ UNCHANGED <<twMounted, displayed, done, timers, interval, elapsed, restarted>>
    /\ UNCHANGED <<scrollY, innerWidth, innerHeight, scrollEventPending,
                   scrollListeners, resizeListeners>>
    /\ UNCHANGED <<headerVars, fadeVars, sttVars, rainVars, appVars>>

\* an effect that returns no cleanup
EffectCleanupMissing(ts, id) == ts

\* the timers after the cleanup of the previous effect run:
\* return () => clearInterval(interval)
EffectCleanup(ts, id) == ClearInterval(ts, id)

\* the state the effect body sets: setDisplayed(''); setDone(false)
EffectReset == [displayed |-> <<>>, done |-> FALSE]

\* the effect runs again: cleanup of the previous run, then the body
RunEffect ==
    /\ twMounted
    /\ effectPending
    /\ LET cleaned == EffectCleanup(timers, interval)
           id == FreshTimerId(cleaned)
       IN /\ timers' = cleaned \cup
                 {[id |-> id, text |-> text, speed |-> speed, i |-> 0, due |-> speed]}
          /\ interval' = id
    /\ displayed' = EffectReset.displayed
    /\ done' = EffectReset.done
    /\ effectPending' = FALSE
    /\ elapsed' = 0
    /\ restarted' = TRUE
    /\ ran' = {}
    /\ UNCHANGED <<twMounted, text, speed, oldText>>
    /\ UNCHANGED <<scrollY, innerWidth, innerHeight, scrollEventPending,
                   scrollListeners, resizeListeners>>
    /\ UNCHANGED <<headerVars, fadeVars, sttVars, rainVars, appVars>>

\* Typewriter is removed: the cleanup of the last effect run
TypewriterUnmount ==
    /\ twMounted
    /\ twMounted' = FALSE
    /\ timers' = EffectCleanup(timers, interval)
    /\ effectPending' = FALSE
    /\ ran' = {}
    /\ UNCHANGED <<text, speed, displayed, done, interval, elapsed, oldText, restarted>>
    /\ UNCHANGED <<scrollY, innerWidth, innerHeight, scrollEventPending,
                   scrollListeners, resizeListeners>>
    /\ UNCHANGED <<headerVars, fadeVars, sttVars, rainVars, appVars>>

----------------------------------------------------------------------------
(* MatrixRain.  Timestamps are in units of 1/120 s, so that the frame      *)
(* interval 1000 / 30 ms is the whole number 4 and displays of 120, 60, 40 *)
(* and 30 Hz deliver their frames at whole timestamps.                     *)

\* const fontSize = 14
fontSize == 14
\* const frameInterval = 1000 / 30, in units of 1/120 s
frameInterval == 4
\* latest timestamp of a frame
MaxTime == 8
\* largest value of a descent counter the model follows
MaxDrop == 4
\* handles requestAnimationFrame hands out before it reuses one
MaxHandles == 2

InnerHeights == {ViewportH \div 2, ViewportH}

InnerWidths == {0, ViewportW \div 2 - 1, ViewportW \div 2, ViewportW - 1, ViewportW}

\* initDrops: canvas.width = window.innerWidth; canvas.height =
\* window.innerHeight; columns = Math.floor(canvas.width / fontSize);
\* drops = Array(columns).fill(1)
initDrops(w, h) ==
    [canvasW |-> w,
     canvasH |-> h,
     columns |-> w \div fontSize,
     drops   |-> [i \in 1..(w \div fontSize) |-> 1]]

\* one iteration of the loop of draw for a column whose counter is d; reset
\* stands for Math.random() > 0.975
DrawColumn(d, reset) ==
    IF d * fontSize > canvasH /\ reset THEN 0 + 1 ELSE d + 1

\* requestAnimationFrame returns a handle other than the one before
NextHandle(h) == (h % MaxHandles) + 1

\* the test of animate with <= in place of <: a frame that comes exactly one
\* frame interval after the last draw is skipped
ThrottledInclusive(time) == time - lastTime <= frameInterval

\* animate runs draw when a frame interval has passed since the last draw:
\* if (time - lastTime < frameInterval) return;
Throttled(time) == time - lastTime < frameInterval

\* the frame callback animate(time) for the pending handle h
animate(h, time) ==
    /\ h \in rafPending
    /\ time >= now
    /\ now' = time
    /\ animationFrameId' = NextHandle(animationFrameId)
    /\ rafPending' = (rafPending \ {h}) \cup {NextHandle(animationFrameId)}
    /\ IF Throttled(time)
       THEN /\ UNCHANGED <<lastTime, drops>>
            /\ ran' = {CB("MatrixRain", "animate")}
       ELSE /\ lastTime' = time
            /\ ran' = {CB("MatrixRain", "animate"), CB("MatrixRain", "draw")}
            /\ IF ctxNull
               THEN \* ctx.fillStyle = ... throws a TypeError
                    UNCHANGED drops
               ELSE \E reset \in [DOMAIN drops -> BOOLEAN] :
                       /\ drops' = [i \in DOMAIN drops |-> DrawColumn(drops[i], reset[i])]
                       /\ \A i \in DOMAIN drops : drops'[i] <= MaxDrop
    /\ UNCHANGED <<rainMounted, ctxNull, canvasW, canvasH, columns, dropsBefore>>
    /\ UNCHANGED <<scrollY, innerWidth, innerHeight, scrollEventPending,
                   scrollListeners, resizeListeners>>
    /\ UNCHANGED <<headerVars, fadeVars, sttVars, twVars, appVars>>

\* Resize with a listener that recomputes the column count and resizes the
\* array of counters in place, keeping the counters of the columns that remain
ResizeKeepingDrops(w, h) ==
    /\ <<w, h>> # <<innerWidth, innerHeight>>
    /\ innerWidth' = w
    /\ innerHeight' = h
    /\ ran' = {CB(c, "resize") : c \in resizeListeners}
    /\ IF "MatrixRain" \in resizeListeners
       THEN /\ canvasW' = initDrops(w, h).canvasW
            /\ canvasH' = initDrops(w, h).canvasH
            /\ columns' = initDrops(w, h).columns
            /\ drops' = [i \in 1..initDrops(w, h).columns |->
                            IF i \in DOMAIN drops THEN drops[i] ELSE 1]
            /\ dropsBefore' = drops
       ELSE UNCHANGED <<canvasW, canvasH, columns, drops, dropsBefore>>
    /\ UNCHANGED <<rainMounted, ctxNull, lastTime, animationFrameId, rafPending, now>>
    /\ UNCHANGED <<scrollY, scrollEventPending, scrollListeners, resizeListeners>>
    /\ UNCHANGED <<headerVars, fadeVars, sttVars, twVars, appVars>>

\* the window is resized to w x h; MatrixRain's listener is initDrops
Resize(w, h) ==
    /\ <<w, h>> # <<innerWidth, innerHeight>>
    /\ innerWidth' = w
    /\ innerHeight' = h
    /\ ran' = {CB(c, "resize") : c \in resizeListeners}
    /\ IF "MatrixRain" \in resizeListeners
       THEN /\ canvasW' = initDrops(w, h).canvasW
            /\ canvasH' = initDrops(w, h).canvasH
            /\ columns' = initDrops(w, h).columns
            /\ drops' = initDrops(w, h).drops
            /\ dropsBefore' = drops
       ELSE UNCHANGED <<canvasW, canvasH, columns, drops, dropsBefore>>
    /\ UNCHANGED <<rainMounted, ctxNull, lastTime, animationFrameId, rafPending, now>>
    /\ UNCHANGED <<scrollY, scrollEventPending, scrollListeners, resizeListeners>>
    /\ UNCHANGED <<headerVars, fadeVars, sttVars, twVars, appVars>>

\* the frame requests left after cancelAnimationFrame(id)
CancelAnimationFrame(pending, id) == pending \ {id}

\* MatrixRain is removed: cancelAnimationFrame(animationFrameId);
\* window.removeEventListener('resize', initDrops)
RainUnmount ==
    /\ rainMounted
    /\ rainMounted' = FALSE
    /\ rafPending' = CancelAnimationFrame(rafPending, animationFrameId)
    /\ resizeListeners' = resizeListeners \ {"MatrixRain"}
    /\ ran' = {}
    /\ UNCHANGED <<ctxNull, canvasW, canvasH, columns, drops, dropsBefore,
                   lastTime, animationFrameId, now>>
    /\ UNCHANGED <<scrollY, innerWidth, innerHeight, scrollEventPending, scrollListeners>>
    /\ UNCHANGED <<headerVars, fadeVars, sttVars, twVars, appVars>>

----------------------------------------------------------------------------
(* App: the category filter *)

\* longest list of projects
MaxProjects == 3

categories == <<"All", "Security", "Networking", "Development">>

CategorySet == {categories[k] : k \in DOMAIN categories}

Project == [title : {"p", "q"}, category : CategorySet \ {"All"}]

RECURSIVE ListsOfLen(_)
ListsOfLen(n) ==
    IF n = 0 THEN {<<>>}
    ELSE {Append(l, p) : l \in ListsOfLen(n - 1), p \in Project}

ProjectLists == UNION {ListsOfLen(n) : n \in 0..MaxProjects}

\* a filter that puts each element that passes in front of the earlier ones
RECURSIVE FilterFromPrepending(_, _, _, _)
FilterFromPrepending(arr, cat, k, acc) ==
    IF k > Len(arr) THEN acc
    ELSE FilterFromPrepending(arr, cat, k + 1,
            IF arr[k].category = cat THEN <<arr[k]>> \o acc ELSE acc)

\* Array.prototype.filter with (p) => p.category === cat: the elements that
\* pass, appended in index order to a new array, from index k on
RECURSIVE FilterFrom(_, _, _, _)
FilterFrom(arr, cat, k, acc) ==
    IF k > Len(arr) THEN acc
    ELSE FilterFrom(arr, cat, k + 1,
            IF arr[k].category = cat THEN Append(acc, arr[k]) ELSE acc)

\* activeCategory === 'All' ? projects : projects.filter(...), with the
\* array the expression leaves behind in `projects`
FilterProjects(arr, cat) ==
    [shown   |-> IF cat = "All" THEN arr ELSE FilterFrom(arr, cat, 1, <<>>),
     source  |-> arr]

\* handleCategoryChange(cat), and the useMemo that follows the state change
handleCategoryChange(cat) ==
    /\ cat # activeCategory
    /\ activeCategory' = cat
    /\ filteredProjects' = FilterProjects(projects, cat).shown
    /\ projects' = FilterProjects(projects, cat).source
    /\ ran' = {}
    /\ UNCHANGED <<scrollY, innerWidth, innerHeight, scrollEventPending,
                   scrollListeners, resizeListeners>>
    /\ UNCHANGED <<headerVars, fadeVars, sttVars, twVars, rainVars>>

----------------------------------------------------------------------------
(* Initial states: the page right after the effects of the mounted         *)
(* components have run.  M is the set of components that are mounted.      *)

WindowInit(M) ==
    /\ scrollY \in IF M \cap {"Header", "FadeInSection", "ScrollToTop"} # {}
                   THEN ScrollOffsets ELSE {0}
    /\ innerWidth = ViewportW
    /\ innerHeight = ViewportH
    /\ scrollEventPending = FALSE
    /\ scrollListeners = M \cap {"Header", "ScrollToTop"}
    /\ resizeListeners = M \cap {"MatrixRain"}
    /\ ran = {}

HeaderInit(M) ==
    /\ headerMounted = ("Header" \in M)
    /\ active = ""
    /\ scrolled = FALSE
    /\ navObserving = [id \in SectionIdSet |-> "Header" \in M]
    /\ navPrev = [id \in SectionIdSet |-> "unset"]
    /\ navQueue = [id \in SectionIdSet |-> <<>>]

FadeInit(M) ==
    /\ fadeMounted = IF "FadeInSection" \in M THEN FadeIds ELSE {}
    /\ inView = [id \in FadeIds |-> FALSE]
    /\ fadeObserving = [id \in FadeIds |-> "FadeInSection" \in M]
    /\ fadePrev = [id \in FadeIds |-> <<-1, FALSE>>]
    /\ fadeQueue = [id \in FadeIds |-> <<>>]

ScrollToTopInit(M) ==
    /\ sttMounted = ("ScrollToTop" \in M)
    /\ visible = FALSE

TypewriterInit(M) ==
    /\ twMounted = ("Typewriter" \in M)
    /\ text \in IF "Typewriter" \in M THEN Texts ELSE {<<>>}
    /\ speed \in IF "Typewriter" \in M THEN Speeds ELSE {1}
    /\ displayed = <<>>
    /\ done = FALSE
    /\ timers = IF "Typewriter" \in M
                THEN {[id |-> 1, text |-> text, speed |-> speed, i |-> 0, due |-> speed]}
                ELSE {}
    /\ interval = IF "Typewriter" \in M THEN 1 ELSE 0
    /\ effectPending = FALSE
    /\ elapsed = 0
    /\ oldText = text
    /\ restarted = FALSE

RainInit(M) ==
    /\ rainMounted = ("MatrixRain" \in M)
    /\ ctxNull \in IF "MatrixRain" \in M THEN BOOLEAN ELSE {FALSE}
    /\ canvasW = IF "MatrixRain" \in M THEN initDrops(ViewportW, ViewportH).canvasW ELSE 0
    /\ canvasH = IF "MatrixRain" \in M THEN initDrops(ViewportW, ViewportH).canvasH ELSE 0
    /\ columns = IF "MatrixRain" \in M THEN initDrops(ViewportW, ViewportH).columns ELSE 0
    /\ drops = IF "MatrixRain" \in M THEN initDrops(ViewportW, ViewportH).drops ELSE <<>>
    /\ dropsBefore = <<>>
    /\ lastTime = 0
    /\ animationFrameId = IF "MatrixRain" \in M THEN 1 ELSE 0
    /\ rafPending = IF "MatrixRain" \in M THEN {1} ELSE {}
    /\ now = 0

AppInit ==
    /\ projects \in ProjectLists
    /\ activeCategory = "All"
    /\ filteredProjects = projects

NoApp ==
    /\ projects = <<>>
    /\ activeCategory = "All"
    /\ filteredProjects = <<>>

InitPage(M) ==
    /\ WindowInit(M)
    /\ HeaderInit(M)
    /\ FadeInit(M)
    /\ ScrollToTopInit(M)
    /\ TypewriterInit(M)
    /\ RainInit(M)

----------------------------------------------------------------------------
(* Specifications: one per component, mounted on its own *)

InitNav == InitPage({"Header"}) /\ NoApp

NextNav ==
    \/ \E y \in ScrollOffsets : Scroll(y)
    \/ DispatchScroll
    \/ UpdateIntersectionObservations
    \/ NotifyIntersectionObservers
    \/ HeaderUnmount

SpecNav == InitNav /\ [][NextNav]_vars

InitFade == InitPage({"FadeInSection"}) /\ NoApp

NextFade ==
    \/ \E y \in ScrollOffsets : Scroll(y)
    \/ UpdateIntersectionObservations
    \/ NotifyIntersectionObservers
    \/ \E id \in FadeIds : FadeUnmount(id)

SpecFade == InitFade /\ [][NextFade]_vars

InitScrollToTop == InitPage({"ScrollToTop"}) /\ NoApp

NextScrollToTop ==
    \/ \E y \in ScrollOffsets : Scroll(y)
    \/ \E w \in InnerWidths, h \in InnerHeights : Resize(w, h)
    \/ DispatchScroll
    \/ ScrollToTopClick
    \/ ScrollToTopUnmount

SpecScrollToTop == InitScrollToTop /\ [][NextScrollToTop]_vars

InitTypewriter == InitPage({"Typewriter"}) /\ NoApp

NextTypewriter ==
    \/ Tick
    \/ \E t \in timers : TimerFire(t)
    \/ \E t \in Texts, s \in Speeds : SetProps(t, s)
    \/ RunEffect
    \/ TypewriterUnmount

SpecTypewriter == InitTypewriter /\ [][NextTypewriter]_vars

\* the browser lets time pass and runs the callback of a due interval, and
\* React runs an effect it has scheduled
SpecTypewriterFair ==
    /\ InitTypewriter
    /\ [][NextTypewriter]_vars
    /\ WF_vars(Tick)
    /\ WF_vars(\E t \in timers : TimerFire(t))
    /\ WF_vars(RunEffect)

InitRain == InitPage({"MatrixRain"}) /\ NoApp

NextRain ==
    \/ \E h \in rafPending, t \in 0..MaxTime : animate(h, t)
    \/ \E w \in InnerWidths, h \in InnerHeights : Resize(w, h)
    \/ RainUnmount

SpecRain == InitRain /\ [][NextRain]_vars

InitFilter == InitPage({}) /\ AppInit

NextFilter == \E cat \in CategorySet : handleCategoryChange(cat)

SpecFilter == InitFilter /\ [][NextFilter]_vars

----------------------------------------------------------------------------
(* Claims about active-section tracking (SpecNav) *)

\* every change of intersection has been observed and delivered
NavQuiescent ==
    \A id \in SectionIdSet : ~NavEntryDue(id) /\ navQueue[id] = <<>>

\* C1: whenever exactly one tracked section intersects the central band and
\* all others are outside it, the reported active section is that section
\* (read at the moments when every intersection change has been delivered).
ActiveIsTheOnlySectionInBand ==
    (headerMounted /\ NavQuiescent) =>
        \A id \in SectionIdSet : InBand(scrollY) = {id} => active = id

\* C7: a section is reported active only while it intersects the central
\* band, and the reported value is the empty string when no tracked section
\* intersects it (read when every intersection change has been delivered).
ActiveOnlyWhileInBand ==
    (headerMounted /\ NavQuiescent) =>
        /\ active # "" => active \in InBand(scrollY)
        /\ InBand(scrollY) = {} => active = ""

----------------------------------------------------------------------------
(* Claims about ScrollToTop (SpecScrollToTop) *)

\* C2: from mount onward the visible flag equals (scroll offset > viewport
\* height), whatever the offset at mount and after every scroll and resize
\* (read when no scroll event is waiting to be dispatched).
VisibleIffScrolledPastViewport ==
    (sttMounted /\ ~scrollEventPending) => (visible = (scrollY > innerHeight))

----------------------------------------------------------------------------
(* Claims about MatrixRain (SpecRain) *)

\* C6: with a null 2D context, initialization fails at once: no frame
\* callback is requested, no resize listener is registered and draw never
\* runs on the null context.
NullContextFailsFast ==
    ctxNull =>
        /\ rafPending = {}
        /\ "MatrixRain" \notin resizeListeners
        /\ CB("MatrixRain", "draw") \notin ran

----------------------------------------------------------------------------
(* Claims about Typewriter (SpecTypewriter) *)

\* C3: with N the length of the target and T the interval, the component is
\* done if and only if at least N*T time has passed since the (re)start, and
\* at every earlier tick k*T (0 <= k < N) it displays the first k characters
\* (read once the callback of a due tick has run).
TypewriterTimeline ==
    (twMounted /\ ~effectPending /\ ~TimerDue) =>
        /\ done <=> elapsed >= Len(text) * speed
        /\ (elapsed < Len(text) * speed /\ elapsed % speed = 0) =>
              displayed = SubSeq(text, 1, elapsed \div speed)

\* the same for targets of at least one character
TypewriterTimelineNonEmpty ==
    Len(text) >= 1 => TypewriterTimeline

\* the effect has run for the current props and its reveal is under way
Revealing == twMounted /\ ~effectPending

\* the step in which the effect runs again
IsRestart == effectPending /\ ~effectPending'

\* the step runs the callback of an interval
IsTick == CB("Typewriter", "interval") \in ran'

\* C8 as stated: after a change of the props the state is reset to the
\* empty prefix and not-done before the first tick of the new reveal, the
\* previous timer never ticks again, and from the reset onward the displayed
\* text is a prefix of the new target and never a prefix of the old one.
RestartNeverShowsOldPrefix ==
    (Revealing /\ restarted) =>
        /\ (\E t \in timers : t.id = interval /\ t.i = 0) =>
              displayed = <<>> /\ done = FALSE
        /\ \A t \in timers : t.id = interval /\ t.text = text /\ t.speed = speed
        /\ IsPrefix(displayed, text)
        /\ ~IsPrefix(displayed, oldText)

\* C8 as amended: the same, without the demand that the displayed text is
\* never a prefix of the old target (the empty prefix, and every prefix the
\* two targets share, is one).
RestartResetsFully ==
    (Revealing /\ restarted) =>
        /\ (\E t \in timers : t.id = interval /\ t.i = 0) =>
              displayed = <<>> /\ done = FALSE
        /\ \A t \in timers : t.id = interval /\ t.text = text /\ t.speed = speed
        /\ IsPrefix(displayed, text)

\* a restart to another target, whose reveal has shown a first character
RestartedMidReveal ==
    /\ Revealing
    /\ restarted
    /\ oldText # text
    /\ Len(displayed) >= 1
    /\ ~done

\* C9, checked under SpecTypewriterFair: without a restart the reveal
\* reaches the done state with the full string displayed, every tick
\* advances the displayed text by exactly one character, and once done the
\* timer is cleared, no tick occurs and displayed and done stay as they are
\* until a restart.
TypewriterTerminates ==
    /\ [][(IsTick /\ twMounted) => Len(displayed') = Len(displayed) + 1]_vars
    /\ [][(done /\ twMounted' /\ ~IsRestart) =>
             (~IsTick /\ done' /\ displayed' = displayed)]_vars
    /\ []((done /\ Revealing) => (timers = {} /\ displayed = text))
    /\ [](Revealing => <>((done /\ displayed = text) \/ ~Revealing))

\* the same for targets of at least one character
TypewriterTerminatesNonEmpty ==
    /\ [][(IsTick /\ twMounted /\ Len(text) >= 1 /\ ~effectPending)
             => Len(displayed') = Len(displayed) + 1]_vars
    /\ [][(done /\ twMounted' /\ ~IsRestart) =>
             (~IsTick /\ done' /\ displayed' = displayed)]_vars
    /\ []((done /\ Revealing) => (timers = {} /\ displayed = text))
    /\ [](Revealing => <>((done /\ displayed = text) \/ ~Revealing))

----------------------------------------------------------------------------
(* Claims about the fade-in (SpecFade) *)

\* the step delivers a notification to the useInView callback of section id
IsInViewNotification(id) == CB("useInView", id) \in ran'

----------------------------------------------------------------------------
(* Claims about teardown (SpecNav for the observers of useActiveSection) *)

\* the component that owns the callback c is still mounted
OwnerMounted(c) ==
    CASE c.comp = "useActiveSection" -> headerMounted
      [] c.comp = "Header"           -> headerMounted
      [] c.comp = "useInView"        -> c.id \in fadeMounted
      [] c.comp = "ScrollToTop"      -> sttMounted
      [] c.comp = "Typewriter"       -> twMounted
      [] c.comp = "MatrixRain"       -> rainMounted

\* C5: after the cleanup of a component none of its callbacks runs again
\* and none of its state is updated.
NoCallbackAfterTeardown ==
    [][/\ \A c \in ran' : OwnerMounted(c)'
       /\ ~headerMounted => UNCHANGED <<active, scrolled>>
       /\ \A id \in FadeIds : id \notin fadeMounted => inView'[id] = inView[id]
       /\ ~sttMounted => UNCHANGED visible
       /\ ~twMounted => UNCHANGED <<displayed, done>>
       /\ ~rainMounted => UNCHANGED <<drops, lastTime, columns>>]_vars

----------------------------------------------------------------------------
(* Claims about the category filter (SpecFilter) *)

\* the indices of the records of ps whose category is c
MatchingIndices(ps, c) == {i \in DOMAIN ps : ps[i].category = c}

\* the k-th smallest element of the set of indices S
KthIndex(S, k) == CHOOSE i \in S : Cardinality({j \in S : j <= i}) = k

\* shown is the subsequence of ps of the records whose category is c
IsCategorySubsequence(shown, ps, c) ==
    /\ Len(shown) = Cardinality(MatchingIndices(ps, c))
    /\ \A k \in 1..Len(shown) : shown[k] = ps[KthIndex(MatchingIndices(ps, c), k)]

\* C10: with a category selected the displayed list is the subsequence of
\* the records of that category, in the original order; with All it is the
\* whole list; no selection changes the list of projects.
FilterShowsCategoryInOrder ==
    /\ [](IF activeCategory = "All"
          THEN filteredProjects = projects
          ELSE IsCategorySubsequence(filteredProjects, projects, activeCategory))
    /\ [][projects' = projects]_vars

\* a category is selected that keeps two different records and drops one
FilterKeepsSomeDropsSome ==
    /\ activeCategory # "All"
    /\ Len(filteredProjects) >= 2
    /\ filteredProjects[1] # filteredProjects[2]
    /\ Len(projects) > Len(filteredProjects)

----------------------------------------------------------------------------
(* Claims about the grid of MatrixRain (SpecRain) *)

\* initDrops has run, at construction or on a resize, and no frame callback
\* has run since
GridFresh == ran = {} \/ CB("MatrixRain", "resize") \in ran

\* C11: after initialization and after every resize, until the next frame
\* callback, the column count is floor(viewport width / 14) for the current
\* width, there is exactly one descent counter per column, and every counter
\* is the baseline 1 whatever the counters were before the resize.
GridMatchesViewport ==
    (rainMounted /\ GridFresh) =>
        /\ columns = innerWidth \div 14
        /\ Len(drops) = columns
        /\ \A i \in DOMAIN drops : drops[i] = 1

\* a resize has replaced a grid whose counters had advanced past the baseline
\* by a grid of another column count
ResizedAfterDescent ==
    /\ rainMounted
    /\ CB("MatrixRain", "resize") \in ran
    /\ \E i \in DOMAIN dropsBefore : dropsBefore[i] > 1
    /\ columns > 0
    /\ columns # Len(dropsBefore)

----------------------------------------------------------------------------
(* Claims about draw (SpecRain) *)

\* the step is a frame callback that ran draw
DrawRan == CB("MatrixRain", "draw") \in ran'

\* what C12 says of one step that ran draw
DrawStepAdvancesOrResets ==
    /\ Len(drops') = Len(drops)
    /\ \A i \in DOMAIN drops :
          /\ drops'[i] = drops[i] + 1 \/ drops'[i] = 1
          /\ drops'[i] = 1 => drops[i] * 14 > innerHeight
          /\ ~(drops[i] * 14 > innerHeight) => drops'[i] = drops[i] + 1

\* C12: on every tick that runs draw, each counter afterwards is its previous
\* value plus one or the baseline 1, and the baseline only if the previous
\* value times the cell size exceeded the viewport height; a column that has
\* not passed the bottom advances by exactly one, every counter is at least
\* 1, and the tick does not change the number of counters.
DrawAdvancesOrResets ==
    [][/\ \A i \in DOMAIN drops' : drops'[i] >= 1
       /\ DrawRan => DrawStepAdvancesOrResets]_vars

\* the same for the ticks on which draw has a 2D context to draw on
DrawAdvancesOrResetsWithContext ==
    [][/\ \A i \in DOMAIN drops' : drops'[i] >= 1
       /\ (DrawRan /\ ~ctxNull) => DrawStepAdvancesOrResets]_vars

\* draw has put one column back to the baseline and advanced another
SomeColumnReset ==
    /\ CB("MatrixRain", "draw") \in ran
    /\ \E i, j \in DOMAIN drops : drops[i] = 1 /\ drops[j] > 2

----------------------------------------------------------------------------
(* Claims about animate (SpecRain) *)

\* the step is a frame callback
AnimateRan == CB("MatrixRain", "animate") \in ran'

\* C13: for frame callbacks with non-decreasing timestamps, a callback draws
\* if and only if its timestamp is at least one frame interval (1000/30 ms,
\* 4 units of 1/120 s) after the timestamp of the previous draw, so two
\* consecutive draws are at least one frame interval apart; every callback,
\* drawing or not, requests exactly one next frame, so while mounted exactly
\* one frame request is pending.  lastTime is the timestamp of the previous
\* draw, 0 before the first one.
DrawsOncePerFrameInterval ==
    [][/\ AnimateRan =>
            /\ now' >= now
            /\ DrawRan <=> now' - lastTime >= 4
            /\ lastTime' = IF DrawRan THEN now' ELSE lastTime
            /\ Cardinality(rafPending' \ rafPending) = 1
            /\ Cardinality(rafPending') = 1
       /\ ~AnimateRan => lastTime' = lastTime
       /\ rainMounted => Cardinality(rafPending) = 1
       /\ rainMounted' => Cardinality(rafPending') = 1]_vars

\* a second draw has run, one frame interval or more after the first (every
\* counter has advanced twice from the baseline), and the next frame is
\* requested
DrewTwice ==
    /\ rainMounted
    /\ ~ctxNull
    /\ CB("MatrixRain", "draw") \in ran
    /\ lastTime = now
    /\ now >= 2 * 4
    /\ columns > 0
    /\ \A i \in DOMAIN drops : drops[i] = 3
    /\ Cardinality(rafPending) = 1

\* a callback that came less than a frame interval after a draw has not
\* drawn and has requested the next frame
SkippedAFrame ==
    /\ rainMounted
    /\ ran = {CB("MatrixRain", "animate")}
    /\ lastTime > 0
    /\ now > lastTime
    /\ Cardinality(rafPending) = 1

====
